---- MODULE Spec2Model ----
(***************************************************************************)
(* Lunar calendar widget (js/script.js and the two older copies of the     *)
(* script kept in unnamed/part_001).                                       *)
(*                                                                         *)
(* Time is measured in minutes.  A real number of minutes is a pair        *)
(* <<w, f>> standing for w + f / SCALE with w an integer and               *)
(* 0 <= f < SCALE (SCALE = 10^8), so that the synodic period               *)
(* 29.530588853 d = 42524.04794832 min and every threshold of the source   *)
(* is represented exactly and all intermediate integers stay within 32     *)
(* bits.  Arithmetic is exact: the rounding error of IEEE doubles          *)
(* (about 1e-12 d) is not modelled.                                        *)
(***************************************************************************)
EXTENDS Integers, Sequences, FiniteSets

(***************************************************************************)
(* Exact fixed-point arithmetic on pairs <<w, f>>.                         *)
(***************************************************************************)
SCALE == 100000000

LIMB == 10000

Fx(w) == <<w, 0>>

FxLess(a, b) == a[1] < b[1] \/ (a[1] = b[1] /\ a[2] < b[2])

FxLeq(a, b) == a = b \/ FxLess(a, b)

FxAdd(a, b) ==
    LET s == a[2] + b[2]
    IN  <<a[1] + b[1] + (s \div SCALE), s % SCALE>>

FxSub(a, b) ==
    LET d == a[2] - b[2]
    IN  <<a[1] - b[1] + (d \div SCALE), d % SCALE>>

FxNeg(a) == FxSub(Fx(0), a)

FxIsNeg(a) == a[1] < 0

FxAbs(a) == IF FxIsNeg(a) THEN FxNeg(a) ELSE a

\* k * a for an integer k, the fraction multiplied limb by limb
FxMulInt(k, a) ==
    LET lo  == k * (a[2] % LIMB)
        hi  == k * (a[2] \div LIMB) + (lo \div LIMB)
    IN  <<k * a[1] + (hi \div LIMB), (hi % LIMB) * LIMB + (lo % LIMB)>>

\* a < b / 100  and  a > b / 100, for a on the 1/SCALE grid
FxLessHundredth(a, b) ==
    LET q == b[1] \div 100
        r == b[1] % 100
    IN  a[1] < q \/ (a[1] = q /\ a[2] < r * (SCALE \div 100) + ((b[2] + 99) \div 100))

FxGreaterHundredth(a, b) ==
    LET q == b[1] \div 100
        r == b[1] % 100
    IN  a[1] > q \/ (a[1] = q /\ a[2] > r * (SCALE \div 100) + (b[2] \div 100))

(***************************************************************************)
(* Astronomical constants.                                                 *)
(***************************************************************************)
\* minutes in a day (msInDay = 1000 * 60 * 60 * 24 ms)
msInDay == 1440

\* 29.530588853 days = 42524.04794832 minutes
LUNAR_CYCLE == <<42524, 4794832>>

\* new Date('2000-01-06T18:14:00Z').getTime(), in minutes since 1970-01-01T00:00Z
NEW_MOON_EPOCH == <<15786374, 0>>

\* a number of days written in units of 1e-5 day (184566 is 1.84566 d), in minutes
Days(d5) ==
    LET p == d5 * (msInDay \div 10)
    IN  <<p \div LIMB, (p % LIMB) * (SCALE \div LIMB)>>

\* Math.floor(x / y) for y > 0
FloorQuot(x, y) ==
    LET g == x[1] \div y[1]
    IN  CHOOSE k \in (g - 2)..(g + 2) :
            /\ FxLeq(FxMulInt(k, y), x)
            /\ FxLess(x, FxMulInt(k + 1, y))

\* the JavaScript remainder x % y (y > 0): the sign follows the dividend
JsRem(x, y) ==
    IF FxIsNeg(x)
    THEN FxNeg(FxSub(FxNeg(x), FxMulInt(FloorQuot(FxNeg(x), y), y)))
    ELSE FxSub(x, FxMulInt(FloorQuot(x, y), y))

\* x - Math.floor(x / y) * y
FloorRem(x, y) == FxSub(x, FxMulInt(FloorQuot(x, y), y))

(***************************************************************************)
(* Math.round(0.5 * (1 - Math.cos(2 * PI * a / LUNAR_CYCLE)) * 100).       *)
(* ILLUM_STEPS[n] is the least a in [0, LUNAR_CYCLE / 2], on the 1/SCALE   *)
(* grid, with 50 * (1 - cos(2 PI a / LUNAR_CYCLE)) >= n - 1/2, that is     *)
(* ceil(SCALE * LUNAR_CYCLE * acos((101 - 2n) / 100) / (2 PI)) / SCALE.    *)
(* The cosine is even and symmetric about the half cycle, so a is folded   *)
(* into [0, LUNAR_CYCLE / 2] first.                                        *)
(***************************************************************************)
ILLUM_STEPS ==
    << <<957, 92676103>>, <<1661, 96591868>>, <<2149, 22117708>>, <<2547, 33044890>>,
       <<2893, 36557244>>, <<3204, 27597290>>, <<3489, 49508436>>, <<3754, 91248711>>,
       <<4004, 49691851>>, <<4241, 7314994>>, <<4466, 73645104>>, <<4683, 9203161>>,
       <<4891, 40210027>>, <<5092, 68068464>>, <<5287, 75724160>>, <<5477, 32076073>>,
       <<5661, 95120735>>, <<5842, 14248161>>, <<6018, 31953399>>, <<6190, 85135811>>,
       <<6360, 6101373>>, <<6526, 23346996>>, <<6689, 62182210>>, <<6850, 45227680>>,
       <<7008, 92819196>>, <<7165, 23338229>>, <<7319, 53484807>>, <<7471, 98504647>>,
       <<7622, 72379646>>, <<7771, 87988798>>, <<7919, 57245049>>, <<8065, 91212436>>,
       <<8211, 206967>>, <<8354, 93884013>>, <<8497, 81314459>>, <<8639, 71051428>>,
       <<8780, 71189080>>, <<8920, 89414718>>, <<9060, 33055222>>, <<9199, 9118680>>,
       <<9337, 24331919>>, <<9474, 85174576>>, <<9611, 97910201>>, <<9748, 68614870>>,
       <<9885, 3203686>>, <<10021, 7455509>>, <<10156, 87036229>>, <<10292, 47520849>>,
       <<10427, 94414620>>, <<10563, 33173474>>, <<10698, 69223943>>, <<10834, 7982797>>,
       <<10969, 54876568>>, <<11105, 15361188>>, <<11240, 94941908>>, <<11376, 99193731>>,
       <<11513, 33782547>>, <<11650, 4487216>>, <<11787, 17222841>>, <<11924, 78065498>>,
       <<12062, 93278737>>, <<12201, 69342195>>, <<12341, 12982699>>, <<12481, 31208337>>,
       <<12622, 31345989>>, <<12764, 21082958>>, <<12907, 8513404>>, <<13051, 2190450>>,
       <<13196, 11184981>>, <<13342, 45152368>>, <<13490, 14408619>>, <<13639, 30017771>>,
       <<13790, 3892770>>, <<13942, 48912610>>, <<14096, 79059188>>, <<14253, 9578221>>,
       <<14411, 57169737>>, <<14572, 40215207>>, <<14735, 79050421>>, <<14901, 96296044>>,
       <<15071, 17261606>>, <<15243, 70444018>>, <<15419, 88149256>>, <<15600, 7276682>>,
       <<15784, 70321344>>, <<15974, 26673257>>, <<16169, 34328953>>, <<16370, 62187390>>,
       <<16578, 93194256>>, <<16795, 28752313>>, <<17020, 95082423>>, <<17257, 52705566>>,
       <<17507, 11148706>>, <<17772, 52888981>>, <<18057, 74800127>>, <<18368, 65840173>>,
       <<18714, 69352527>>, <<19112, 80279709>>, <<19600, 5805549>>, <<20304, 9721314>> >>

\* the number of steps of ILLUM_STEPS at or below x, by bisection
RECURSIVE StepsUpTo(_, _, _)
StepsUpTo(x, lo, hi) ==
    IF lo = hi THEN lo
    ELSE LET mid == (lo + hi + 1) \div 2
         IN  IF FxLeq(ILLUM_STEPS[mid], x)
             THEN StepsUpTo(x, mid, hi)
             ELSE StepsUpTo(x, lo, mid - 1)

\* Mutants of illuminationPercent: the factor 0.5 dropped, Math.sin for Math.cos
illuminationNoHalf(a) ==
    LET x == FxAbs(a)
        y == FxSub(LUNAR_CYCLE, x)
        z == IF FxLess(y, x) THEN y ELSE x
    IN  2 * StepsUpTo(z, 0, Len(ILLUM_STEPS))

illuminationSine(a) ==
    LET quarter == <<LUNAR_CYCLE[1] \div 4, LUNAR_CYCLE[2] \div 4>>
        x == FloorRem(FxSub(a, quarter), LUNAR_CYCLE)
        y == FxSub(LUNAR_CYCLE, x)
        z == IF FxLess(y, x) THEN y ELSE x
    IN  StepsUpTo(z, 0, Len(ILLUM_STEPS))

\* a: the age in minutes, -LUNAR_CYCLE < a < LUNAR_CYCLE
illuminationPercent(a) ==
    LET x == FxAbs(a)
        y == FxSub(LUNAR_CYCLE, x)
        z == IF FxLess(y, x) THEN y ELSE x
    IN  StepsUpTo(z, 0, Len(ILLUM_STEPS))

(***************************************************************************)
(* getMoonPhase, js/script.js: the fractional phase is taken with the      *)
(* truncating % 1.  ph stands for phase * LUNAR_CYCLE, so that             *)
(* phase < n / 100 is 100 * ph < n * LUNAR_CYCLE.                          *)
(***************************************************************************)
\* Mutant of PhaseBelow: a 30-day cycle in place of LUNAR_CYCLE
PhaseBelowThirtyDays(ph, n) == FxLessHundredth(ph, FxMulInt(n, Fx(30 * msInDay)))

PhaseBelow(ph, n) == FxLessHundredth(ph, FxMulInt(n, LUNAR_CYCLE))

PhaseAbove(ph, n) == FxGreaterHundredth(ph, FxMulInt(n, LUNAR_CYCLE))

Descriptor(name, emoji, isMajor, illum) ==
    [name |-> name, emoji |-> emoji, isMajor |-> isMajor, illumination |-> illum]

\* Mutant of phaseOfDate: the epoch is not subtracted
phaseOfDateNoEpoch(date) == JsRem(date, LUNAR_CYCLE)

\* const phase = (daysSinceEpoch / LUNAR_CYCLE) % 1, times LUNAR_CYCLE
phaseOfDate(date) == JsRem(FxSub(date, NEW_MOON_EPOCH), LUNAR_CYCLE)

getMoonPhase(date) ==
    LET phase == phaseOfDate(date)
        pct   == illuminationPercent(phase)
    IN  IF PhaseBelow(phase, 3) \/ PhaseAbove(phase, 97)
             THEN Descriptor("New Moon", "U+1F311", TRUE, pct)
        ELSE IF PhaseBelow(phase, 22)
             THEN Descriptor("Waxing Crescent", "U+1F312", FALSE, pct)
        ELSE IF PhaseBelow(phase, 28)
             THEN Descriptor("First Quarter", "U+1F313", TRUE, pct)
        ELSE IF PhaseBelow(phase, 47)
             THEN Descriptor("Waxing Gibbous", "U+1F314", FALSE, pct)
        ELSE IF PhaseBelow(phase, 53)
             THEN Descriptor("Full Moon", "U+1F315", TRUE, pct)
        ELSE IF PhaseBelow(phase, 72)
             THEN Descriptor("Waning Gibbous", "U+1F316", FALSE, pct)
        ELSE IF PhaseBelow(phase, 78)
             THEN Descriptor("Last Quarter", "U+1F317", TRUE, pct)
        ELSE Descriptor("Waning Crescent", "U+1F318", FALSE, pct)

(***************************************************************************)
(* getMoonPhase, unnamed/part_001 lines 20-62: floor-normalised age,       *)
(* thresholds in days.                                                     *)
(***************************************************************************)
\* daysSinceEpoch - Math.floor(daysSinceEpoch / LUNAR_CYCLE) * LUNAR_CYCLE
ageFloor(date) == FloorRem(FxSub(date, NEW_MOON_EPOCH), LUNAR_CYCLE)

getMoonPhaseFloor(date) ==
    LET age == ageFloor(date)
        pct == illuminationPercent(age)
    IN  IF FxLess(age, Days(184566)) \/ ~FxLess(age, Days(2768493))
             THEN Descriptor("New Moon", "U+1F311", TRUE, pct)
        ELSE IF FxLess(age, Days(553699))
             THEN Descriptor("Waxing Crescent", "U+1F312", FALSE, pct)
        ELSE IF FxLess(age, Days(922831))
             THEN Descriptor("First Quarter", "U+1F313", TRUE, pct)
        ELSE IF FxLess(age, Days(1291963))
             THEN Descriptor("Waxing Gibbous", "U+1F314", FALSE, pct)
        ELSE IF FxLess(age, Days(1661096))
             THEN Descriptor("Full Moon", "U+1F315", TRUE, pct)
        ELSE IF FxLess(age, Days(2030228))
             THEN Descriptor("Waning Gibbous", "U+1F316", FALSE, pct)
        ELSE IF FxLess(age, Days(2399361))
             THEN Descriptor("Last Quarter", "U+1F317", TRUE, pct)
        ELSE IF FxLess(age, Days(2768493))
             THEN Descriptor("Waning Crescent", "U+1F318", FALSE, pct)
        ELSE Descriptor("New Moon", "U+1F311", TRUE, pct)

(***************************************************************************)
(* getMoonPhase, unnamed/part_001 lines 184-201: truncating % on the age,  *)
(* no illumination in the result.                                          *)
(***************************************************************************)
PlainDescriptor(name, emoji, isMajor) ==
    [name |-> name, emoji |-> emoji, isMajor |-> isMajor]

\* const age = daysSinceEpoch % LUNAR_CYCLE
ageTrunc(date) == JsRem(FxSub(date, NEW_MOON_EPOCH), LUNAR_CYCLE)

getMoonPhaseTrunc(date) ==
    LET age == ageTrunc(date)
    IN  IF FxLess(age, Days(184566))
             THEN PlainDescriptor("New Moon", "U+1F311", TRUE)
        ELSE IF FxLess(age, Days(553699))
             THEN PlainDescriptor("Waxing Crescent", "U+1F312", FALSE)
        ELSE IF FxLess(age, Days(922831))
             THEN PlainDescriptor("First Quarter", "U+1F313", TRUE)
        ELSE IF FxLess(age, Days(1291963))
             THEN PlainDescriptor("Waxing Gibbous", "U+1F314", FALSE)
        ELSE IF FxLess(age, Days(1661096))
             THEN PlainDescriptor("Full Moon", "U+1F315", TRUE)
        ELSE IF FxLess(age, Days(2030228))
             THEN PlainDescriptor("Waning Gibbous", "U+1F316", FALSE)
        ELSE IF FxLess(age, Days(2399361))
             THEN PlainDescriptor("Last Quarter", "U+1F317", TRUE)
        ELSE IF FxLess(age, Days(2768493))
             THEN PlainDescriptor("Waning Crescent", "U+1F318", FALSE)
        ELSE PlainDescriptor("New Moon", "U+1F311", TRUE)

(***************************************************************************)
(* The Date built-ins the script uses.  A Date is a local wall-clock       *)
(* value [day, tod]: day counts local civil days from 1970-01-01 and tod   *)
(* is the minute of that day.  A zone is its offset east of UTC in         *)
(* minutes (no daylight saving).                                           *)
(***************************************************************************)
VARIABLES
    build,            \* which copy of the script the page loads
    tzOffset,         \* the browser's time zone
    clock,            \* the wall clock at the latest read
    lastRenderedDay,  \* let lastRenderedDay
    container,        \* #calendar-container: the month grids appended so far
    tickDay,          \* civil day of `now` in the latest tick (NoDay before the first)
    renders,          \* calls of renderAllCalendars made by the latest tick
    dateChanged,      \* the latest tick was the first, or fell on another date than the one before
    instants,         \* phase-engine probe: the instants handed to getMoonPhase
    phases            \* phase-engine probe: the descriptors returned

vars == <<build, tzOffset, clock, lastRenderedDay, container, tickDay, renders,
          dateChanged, instants, phases>>

\* new Date(yr, monthIndex, d): month and day overflow normalised, as day number
DaysFromCivil(yr, monthIndex, d) ==
    LET y1  == yr + (monthIndex \div 12)
        m   == (monthIndex % 12) + 1
        y   == IF m <= 2 THEN y1 - 1 ELSE y1
        era == y \div 400
        yoe == y - era * 400
        mp  == IF m > 2 THEN m - 3 ELSE m + 9
        doy == (153 * mp + 2) \div 5
        doe == yoe * 365 + (yoe \div 4) - (yoe \div 100) + doy
    IN  era * 146097 + doe - 719468 + (d - 1)

\* the local calendar components of a day number
CivilFromDays(z) ==
    LET z1  == z + 719468
        era == z1 \div 146097
        doe == z1 - era * 146097
        yoe == (doe - (doe \div 1460) + (doe \div 36524) - (doe \div 146096)) \div 365
        doy == doe - (365 * yoe + (yoe \div 4) - (yoe \div 100))
        mp  == (5 * doy + 2) \div 153
        d   == doy - ((153 * mp + 2) \div 5) + 1
        m   == IF mp < 10 THEN mp + 3 ELSE mp - 9
    IN  [year |-> yoe + era * 400 + (IF m <= 2 THEN 1 ELSE 0), month |-> m - 1, day |-> d]

getDate(t) == CivilFromDays(t.day).day

getMonth(t) == CivilFromDays(t.day).month

getFullYear(t) == CivilFromDays(t.day).year

\* 0 = Sunday; 1970-01-01 was a Thursday
getDay(t) == (t.day + 4) % 7

\* t.getTime() in zone tz, in minutes
getTime(t, tz) == Fx(t.day * msInDay + t.tod - tz)

LocalDate(yr, monthIndex, d) == [day |-> DaysFromCivil(yr, monthIndex, d), tod |-> 0]

(***************************************************************************)
(* The configuration of renderAllCalendars and the page's environment.     *)
(***************************************************************************)
monthsToDisplay == <<6, 7, 8, 9, 10, 11>>

year == 2025

Builds == {"script", "floor", "demo"}

TimeZones == {-300, 330}

\* the phase engine of build b
PhaseOf(b, t) ==
    CASE b = "script" -> getMoonPhase(t)
      [] b = "floor"  -> getMoonPhaseFloor(t)
      [] b = "demo"   -> getMoonPhaseTrunc(t)

\* the age (script.js: phase * LUNAR_CYCLE) build b classifies
AgeOf(b, t) ==
    CASE b = "script" -> phaseOfDate(t)
      [] b = "floor"  -> ageFloor(t)
      [] b = "demo"   -> ageTrunc(t)

\* getMoonPhase(cellDate) for the cell dates of the configured months.  The
\* values depend on nothing that changes, so they are tabulated once per
\* build and zone; moonAt looks a cell date up and computes any other date.
ConfiguredDays ==
    DaysFromCivil(year, monthsToDisplay[1], 1)
        .. (DaysFromCivil(year, monthsToDisplay[Len(monthsToDisplay)] + 1, 1) - 1)

MOONS ==
    [b \in Builds |-> [tz \in TimeZones |-> [z \in ConfiguredDays |->
        PhaseOf(b, getTime([day |-> z, tod |-> 0], tz))]]]

moonAt(cellDate) ==
    IF cellDate.day \in ConfiguredDays /\ cellDate.tod = 0
    THEN MOONS[build][tzOffset][cellDate.day]
    ELSE PhaseOf(build, getTime(cellDate, tzOffset))

(***************************************************************************)
(* createMonthCalendar.  A grid is the markup reduced to its cells: the    *)
(* number of leading blank cells and, per day, the day number, the         *)
(* descriptor shown and the highlight classes.  `today` records the clock  *)
(* value the call read (it is not part of the markup).                     *)
(***************************************************************************)
\* Mutant of daysInMonth: day 0 of the month itself, not of the next month
daysInMonthPrevious(monthIndex, yr) == getDate(LocalDate(yr, monthIndex, 0))

daysInMonth(monthIndex, yr) == getDate(LocalDate(yr, monthIndex + 1, 0))

firstDayOfMonth(monthIndex, yr) == getDay(LocalDate(yr, monthIndex, 1))

\* Mutant of cellClasses: the major-phase test is not under the else
cellClassesBoth(isToday, m) ==
    (IF isToday THEN {"today"} ELSE {})
        \cup (IF m.isMajor THEN {"major-phase"} ELSE {})

cellClasses(isToday, m) ==
    IF isToday THEN {"today"}
    ELSE IF m.isMajor THEN {"major-phase"}
    ELSE {"hover:bg-gray-700"}

\* unnamed/part_001 lines 282-291: both classes may be pushed
dayClasses(isToday, phase) ==
    (IF phase.isMajor THEN {"major-phase"} ELSE {})
        \cup (IF isToday THEN {"today"} ELSE {})

\* unnamed/part_001 line 253: new Date('2025-07-28T15:47:00')
SIMULATED_TODAY == [day |-> DaysFromCivil(2025, 6, 28), tod |-> 15 * 60 + 47]

\* today.getDate(), today.getMonth(), today.getFullYear()
current(today) == CivilFromDays(today.day)

\* Mutant of isTodayCell: the year is not compared
isTodayCellAnyYear(d, monthIndex, yr, cur) == d = cur.day /\ monthIndex = cur.month

\* d === currentDay && monthIndex === currentMonth && year === currentYear
isTodayCell(d, monthIndex, yr, cur) ==
    d = cur.day /\ monthIndex = cur.month /\ yr = cur.year

\* js/script.js and unnamed/part_001 lines 106-160 read the clock (now); the
\* copy at unnamed/part_001 lines 249-297 uses SIMULATED_TODAY instead
createMonthCalendar(monthIndex, yr, now) ==
    LET today == IF build = "demo" THEN SIMULATED_TODAY ELSE now
        cur   == current(today)
    IN  [month  |-> monthIndex,
         year   |-> yr,
         today  |-> today,
         blanks |-> firstDayOfMonth(monthIndex, yr),
         cells  |-> [d \in 1..daysInMonth(monthIndex, yr) |->
                       LET m == moonAt(LocalDate(yr, monthIndex, d))
                           isToday == isTodayCell(d, monthIndex, yr, cur)
                       IN  [day |-> d, moon |-> m,
                            classes |-> IF build = "demo"
                                        THEN dayClasses(isToday, m)
                                        ELSE cellClasses(isToday, m)]]]

(***************************************************************************)
(* renderAllCalendars: the container is cleared and one grid is appended   *)
(* per configured month.  reads[i] is the clock value the i-th call of     *)
(* createMonthCalendar gets from its own new Date().                       *)
(***************************************************************************)
renderAllCalendars(reads) ==
    [i \in 1..Len(monthsToDisplay) |->
        createMonthCalendar(monthsToDisplay[i], year, reads[i])]

(***************************************************************************)
(* The environment: the wall clock.                                        *)
(***************************************************************************)
\* the window of civil days the clock moves in, from 2025-06-30
FirstDay == DaysFromCivil(2025, 5, 30)

NumDays == 33

LastMinute == 1439

TimesOfDay == {15 * 60 + 47, LastMinute}

\* days between two consecutive ticks: the same or the next day while the
\* timer runs, more after the machine was suspended
Gaps == {0, 1, 31}

Clocks == [day : FirstDay..(FirstDay + NumDays - 1), tod : TimesOfDay]

ClockLeq(a, b) == a.day < b.day \/ (a.day = b.day /\ a.tod <= b.tod)

NextMinute(t) ==
    IF t.tod = LastMinute THEN [day |-> t.day + 1, tod |-> 0]
    ELSE [day |-> t.day, tod |-> t.tod + 1]

\* the clock values the createMonthCalendar calls of one pass read: the first j
\* calls read `now`, the later ones read the next minute
Reads(now, j) == [i \in 1..Len(monthsToDisplay) |-> IF i <= j THEN now ELSE NextMinute(now)]

null == 0

NoDay == -1

\* Mutant of updateClockAndDate: the marker is taken from a clock read after
\* the render pass, not from the handler's own `now`
updateClockAndDateLateRead(now, reads) ==
    /\ IF getDate(now) # lastRenderedDay
       THEN /\ container' = renderAllCalendars(reads)
            /\ lastRenderedDay' = getDate(reads[Len(reads)])
            /\ renders' = 1
            /\ clock' = reads[Len(reads)]
       ELSE /\ UNCHANGED <<container, lastRenderedDay>>
            /\ renders' = 0
            /\ clock' = now
    /\ tickDay' = now.day
    /\ dateChanged' = (tickDay = NoDay \/ tickDay # now.day)
    /\ UNCHANGED <<build, tzOffset, instants, phases>>

(***************************************************************************)
(* updateClockAndDate: one timer tick (the DOMContentLoaded call           *)
(* included).  now is the clock value the handler reads.                   *)
(***************************************************************************)
updateClockAndDate(now, reads) ==
    /\ IF getDate(now) # lastRenderedDay
       THEN /\ container' = renderAllCalendars(reads)
            /\ lastRenderedDay' = getDate(now)
            /\ renders' = 1
            /\ clock' = reads[Len(reads)]
       ELSE /\ UNCHANGED <<container, lastRenderedDay>>
            /\ renders' = 0
            /\ clock' = now
    /\ tickDay' = now.day
    /\ dateChanged' = (tickDay = NoDay \/ tickDay # now.day)
    /\ UNCHANGED <<build, tzOffset, instants, phases>>

Init ==
    /\ build \in Builds
    /\ tzOffset \in TimeZones
    /\ clock \in Clocks
    /\ lastRenderedDay = null
    /\ container = <<>>
    /\ tickDay = NoDay
    /\ renders = 0
    /\ dateChanged = FALSE
    /\ instants = <<>>
    /\ phases = <<>>

Tick ==
    \E now \in Clocks :
        /\ ClockLeq(clock, now)
        /\ (now.day - clock.day) \in Gaps
        /\ \E j \in 0..Len(monthsToDisplay) :
              /\ j < Len(monthsToDisplay) => now.tod = LastMinute
              /\ updateClockAndDate(now, Reads(now, j))

Next == Tick

Spec == Init /\ [][Next]_vars

(***************************************************************************)
(* The phase engine on its own: getMoonPhase applied to pairs of instants  *)
(* around the reference epoch (before and after it) and around the first   *)
(* configured cell date.                                                   *)
(***************************************************************************)
ProbeStep == 600

ProbeSpan == 107

ProbeBases == {NEW_MOON_EPOCH, Fx(DaysFromCivil(year, monthsToDisplay[1], 1) * msInDay)}

ProbeInstants ==
    {FxAdd(base, Fx(i * ProbeStep)) : base \in ProbeBases, i \in (0 - ProbeSpan)..ProbeSpan}

\* the second instant of a pair: one synodic period later, or a little later
ProbeDeltas == {LUNAR_CYCLE, Fx(1), Fx(360), Fx(msInDay)}

Probe(b, t) == [age |-> AgeOf(b, t), moon |-> PhaseOf(b, t)]

InitPhase ==
    /\ build \in Builds
    /\ tzOffset = 0
    /\ clock = [day |-> FirstDay, tod |-> 0]
    /\ lastRenderedDay = null
    /\ container = <<>>
    /\ tickDay = NoDay
    /\ renders = 0
    /\ dateChanged = FALSE
    /\ instants = <<>>
    /\ phases = <<>>

ComputePhases ==
    \E t \in ProbeInstants, dt \in ProbeDeltas :
        /\ phases = <<>>
        /\ instants' = <<t, FxAdd(t, dt)>>
        /\ phases' = <<Probe(build, t), Probe(build, FxAdd(t, dt))>>
        /\ UNCHANGED <<build, tzOffset, clock, lastRenderedDay, container, tickDay,
                       renders, dateChanged>>

NextPhase == ComputePhases

PhaseSpec == InitPhase /\ [][NextPhase]_vars

(***************************************************************************)
(* createMonthCalendar on its own: one grid built for any month of a few   *)
(* years (leap, non-leap, century) with the clock on, next to or far from  *)
(* the month.                                                              *)
(***************************************************************************)
ProbeYears == {1900, 2000, 2024, 2025}

ProbeMonths == 0..11

\* clock values for a grid of (monthIndex, yr): the day before the month, its
\* first, 15th and last day, the day after it, and the 15th of the same month
\* a year later and of the next month
ProbeTodays(monthIndex, yr) ==
    LET first == DaysFromCivil(yr, monthIndex, 1)
        next  == DaysFromCivil(yr, monthIndex + 1, 1)
    IN  [day : {first - 1, first, first + 14, next - 1, next, next + 14,
                DaysFromCivil(yr + 1, monthIndex, 15)},
         tod : TimesOfDay]

InitGrid ==
    /\ build \in Builds
    /\ tzOffset \in TimeZones
    /\ clock = [day |-> FirstDay, tod |-> 0]
    /\ lastRenderedDay = null
    /\ container = <<>>
    /\ tickDay = NoDay
    /\ renders = 0
    /\ dateChanged = FALSE
    /\ instants = <<>>
    /\ phases = <<>>

BuildGrid ==
    \E yr \in ProbeYears, monthIndex \in ProbeMonths :
        \E now \in ProbeTodays(monthIndex, yr) :
            /\ container = <<>>
            /\ clock' = now
            /\ container' = <<createMonthCalendar(monthIndex, yr, now)>>
            /\ UNCHANGED <<build, tzOffset, lastRenderedDay, tickDay, renders,
                           dateChanged, instants, phases>>

NextGrid == BuildGrid

GridSpec == InitGrid /\ [][NextGrid]_vars

(***************************************************************************)
(* Properties of the phase engine, checked under PhaseSpec.                *)
(***************************************************************************)
Probed == phases # <<>>

\* builds whose descriptor carries an illumination
Illuminating == {"script", "floor"}

\* the phase age of the specification: elapsed time modulo the synodic period,
\* normalised into [0, LUNAR_CYCLE)
NormalizedAge(t) ==
    LET e == FxSub(t, NEW_MOON_EPOCH)
        r == JsRem(e, LUNAR_CYCLE)
    IN  IF FxIsNeg(r) THEN FxAdd(r, LUNAR_CYCLE) ELSE r

InCycle(a) == ~FxIsNeg(a) /\ FxLess(a, LUNAR_CYCLE)

BeforeEpoch(t) == FxLess(t, NEW_MOON_EPOCH)

\* C1: for every instant, also before the reference epoch, the age the engine
\* classifies is the floor-normalised age and lies in [0, LUNAR_CYCLE)
C1_AgeNormalized ==
    Probed => \A i \in 1..2 :
        /\ InCycle(phases[i].age)
        /\ phases[i].age = NormalizedAge(instants[i])

SameClass(p, q) ==
    /\ p.name = q.name
    /\ p.emoji = q.emoji
    /\ p.isMajor = q.isMajor

\* C2: an instant and the instant one synodic period later get the same name,
\* symbol and isMajor, on either side of the epoch
C2_Periodic ==
    (Probed /\ build \in Illuminating /\ instants[2] = FxAdd(instants[1], LUNAR_CYCLE))
        => SameClass(phases[1].moon, phases[2].moon)

PhaseNames ==
    << "New Moon", "Waxing Crescent", "First Quarter", "Waxing Gibbous", "Full Moon",
       "Waning Gibbous", "Last Quarter", "Waning Crescent", "New Moon" >>

PhaseEmojis ==
    << "U+1F311", "U+1F312", "U+1F313", "U+1F314", "U+1F315", "U+1F316", "U+1F317",
       "U+1F318", "U+1F311" >>

\* the descriptor fields of bin k (0..8; bin 8 is the New Moon bin wrapped round)
InBin(p, k) ==
    /\ p.name = PhaseNames[k + 1]
    /\ p.emoji = PhaseEmojis[k + 1]
    /\ p.isMajor = (k % 2 = 0)

\* the number of odd sixteenths of the period at or below age a
SixteenthBin(a) ==
    Cardinality({k \in {1, 3, 5, 7, 9, 11, 13, 15} :
                    FxLeq(FxMulInt(k, LUNAR_CYCLE), FxMulInt(16, a))})

\* C3 as claimed: an age in [0, LUNAR_CYCLE) is classified by eight bins of
\* equal width LUNAR_CYCLE / 8 bounded by the odd sixteenths of the period
C3_SixteenthBins ==
    (Probed /\ build \in Illuminating) => \A i \in 1..2 :
        InCycle(phases[i].age) => InBin(phases[i].moon, SixteenthBin(phases[i].age))

\* the number of boundaries n / 100 of the period passed by age a (js/script.js)
HundredthBin(a) ==
    Cardinality({n \in {3, 22, 28, 47, 53, 72, 78} :
                    ~FxLessHundredth(a, FxMulInt(n, LUNAR_CYCLE))})
        + (IF FxGreaterHundredth(a, FxMulInt(97, LUNAR_CYCLE)) THEN 1 ELSE 0)

\* the number of day thresholds at or below age a (unnamed/part_001 lines 51-58)
DayBin(a) ==
    Cardinality({d5 \in {184566, 553699, 922831, 1291963, 1661096, 2030228, 2399361,
                         2768493} : FxLeq(Days(d5), a)})

\* C3 (amended): an age in [0, LUNAR_CYCLE) falls in exactly one of eight
\* contiguous bins covering the cycle, New Moon wrapping round; the boundaries
\* are 0.03, 0.22, 0.28, 0.47, 0.53, 0.72, 0.78, 0.97 of the period in
\* js/script.js and 1.84566, 5.53699, 9.22831, 12.91963, 16.61096, 20.30228,
\* 23.99361, 27.68493 days in unnamed/part_001, and the bin fixes name, symbol
\* and isMajor
C3_Bins ==
    (Probed /\ build \in Illuminating) => \A i \in 1..2 :
        InCycle(phases[i].age) =>
            InBin(phases[i].moon,
                  IF build = "script" THEN HundredthBin(phases[i].age)
                  ELSE DayBin(phases[i].age))

\* an age the eight equal bins would call New Moon and js/script.js calls
\* Waxing Crescent
C3_Witness ==
    /\ Probed
    /\ build = "script"
    /\ InCycle(phases[1].age)
    /\ SixteenthBin(phases[1].age) = 0
    /\ phases[1].moon.name = "Waxing Crescent"

\* C4: the illumination returned is an integer in 0..100, for every instant
C4_IlluminationRange ==
    (Probed /\ build \in Illuminating) => \A i \in 1..2 :
        phases[i].moon.illumination \in 0..100

\* an instant before the epoch, close to a full moon
C4_Witness ==
    /\ Probed
    /\ build = "script"
    /\ BeforeEpoch(instants[1])
    /\ phases[1].moon.illumination = 100

HalfCycle == <<LUNAR_CYCLE[1] \div 2, LUNAR_CYCLE[2] \div 2>>

\* both instants lie in the same lunar cycle, the first one earlier
SameCycle ==
    /\ FxLess(instants[1], instants[2])
    /\ FloorQuot(FxSub(instants[1], NEW_MOON_EPOCH), LUNAR_CYCLE)
         = FloorQuot(FxSub(instants[2], NEW_MOON_EPOCH), LUNAR_CYCLE)

Waxing == SameCycle /\ FxLeq(NormalizedAge(instants[2]), HalfCycle)

Waning == SameCycle /\ FxLeq(HalfCycle, NormalizedAge(instants[1]))

\* C5 as claimed: within one cycle the illumination strictly increases from
\* New Moon to Full Moon and strictly decreases from Full Moon to New Moon
C5_StrictlyMonotone ==
    (Probed /\ build \in Illuminating) =>
        /\ Waxing => phases[1].moon.illumination < phases[2].moon.illumination
        /\ Waning => phases[1].moon.illumination > phases[2].moon.illumination

\* C5 (amended): within one cycle the illumination never decreases from New
\* Moon to Full Moon and never increases from Full Moon to New Moon
C5_Monotone ==
    (Probed /\ build \in Illuminating) =>
        /\ Waxing => phases[1].moon.illumination <= phases[2].moon.illumination
        /\ Waning => phases[1].moon.illumination >= phases[2].moon.illumination

\* two instants of the waning half, the later one less illuminated
C5_Witness ==
    /\ Probed
    /\ build = "script"
    /\ Waning
    /\ phases[1].moon.illumination > phases[2].moon.illumination

\* C6: at the reference new-moon instant the engine returns New Moon, a major
\* phase, with illumination 0
C6_EpochIsNewMoon ==
    (Probed /\ build \in Illuminating /\ instants[1] = NEW_MOON_EPOCH) =>
        /\ phases[1].moon.name = "New Moon"
        /\ phases[1].moon.isMajor
        /\ phases[1].moon.illumination = 0

C6_Witness ==
    /\ Probed
    /\ build = "script"
    /\ instants[1] = NEW_MOON_EPOCH
    /\ phases[1].moon.name = "New Moon"

(***************************************************************************)
(* Properties of the month grids and of the tick handler.                  *)
(***************************************************************************)
Grids == {container[i] : i \in DOMAIN container}

\* cell d of grid g is the calendar date of the clock value g was built with
CellIsToday(g, d) == DaysFromCivil(g.year, g.month, d) = g.today.day

TodayCells(g) == {d \in DOMAIN g.cells : "today" \in g.cells[d].classes}

OtherTimes == {0, LastMinute}

\* C7: a cell is marked today iff its day, month and year are those of the
\* today reference, and the time of day of the reference does not matter
C7_TodayByDate ==
    \A g \in Grids :
        /\ \A d \in DOMAIN g.cells : ("today" \in g.cells[d].classes) <=> CellIsToday(g, d)
        /\ \A tod \in OtherTimes :
              TodayCells(createMonthCalendar(g.month, g.year,
                                             [day |-> g.today.day, tod |-> tod]))
                  = TodayCells(g)

\* the grid of a month with the clock on its 15th, in the afternoon
C7_Witness ==
    \E g \in Grids :
        /\ build = "script"
        /\ g.today.tod \notin OtherTimes
        /\ TodayCells(g) = {15}

\* C8: no cell is both today-styled and major-phase-styled; today wins, and a
\* cell that is not today is major-phase-styled iff its phase is major
C8_TodayWins ==
    \A g \in Grids : \A d \in DOMAIN g.cells :
        LET c == g.cells[d]
        IN  /\ ~({"today", "major-phase"} \subseteq c.classes)
            /\ (CellIsToday(g, d) /\ c.moon.isMajor) => c.classes = {"today"}
            /\ ~CellIsToday(g, d) => (("major-phase" \in c.classes) <=> c.moon.isMajor)

\* today falls on a major phase
C8_Witness ==
    \E g \in Grids : \E d \in DOMAIN g.cells :
        /\ CellIsToday(g, d)
        /\ g.cells[d].moon.isMajor
        /\ g.cells[d].classes = {"today"}

IsLeapYear(y) == (y % 4 = 0 /\ y % 100 # 0) \/ y % 400 = 0

MonthLength(monthIndex, y) ==
    IF monthIndex = 1 THEN (IF IsLeapYear(y) THEN 29 ELSE 28)
    ELSE IF monthIndex \in {3, 5, 8, 10} THEN 30
    ELSE 31

\* the weekday (0 = Sunday) of the first of a month, by Zeller's congruence
WeekdayOfFirst(monthIndex, y) ==
    LET m  == IF monthIndex < 2 THEN monthIndex + 13 ELSE monthIndex + 1
        y1 == IF monthIndex < 2 THEN y - 1 ELSE y
        k  == y1 % 100
        j  == y1 \div 100
        h  == (1 + ((13 * (m + 1)) \div 5) + k + (k \div 4) + (j \div 4) + 5 * j) % 7
    IN  (h + 6) % 7

\* C9: a grid has the days 1..daysInMonth of its month in order, preceded by as
\* many blanks as the weekday index of the first; July 2025 has 31 cells and
\* the cell of July 15 is today when the clock is on July 15 2025
C9_MonthShape ==
    \A g \in Grids :
        /\ DOMAIN g.cells = 1..MonthLength(g.month, g.year)
        /\ \A d \in DOMAIN g.cells : g.cells[d].day = d
        /\ g.blanks = WeekdayOfFirst(g.month, g.year)
        /\ (g.month = 6 /\ g.year = 2025) =>
              /\ Cardinality(DOMAIN g.cells) = 31
              /\ g.blanks = 2
              /\ g.today.day = DaysFromCivil(2025, 6, 15) => "today" \in g.cells[15].classes

C9_Witness ==
    \E g \in Grids :
        /\ build = "script"
        /\ g.month = 6 /\ g.year = 2025
        /\ g.today.day = DaysFromCivil(2025, 6, 15)
        /\ Cardinality(DOMAIN g.cells) = 31
        /\ "today" \in g.cells[15].classes

\* C10: the first tick renders, a tick on another calendar date than the tick
\* before renders exactly once, a tick on the same date does not render
C10_RenderOnDateChange ==
    tickDay # NoDay => renders = (IF dateChanged THEN 1 ELSE 0)

\* the clock value the last tick handler read, as a civil day
TickDate == [day |-> tickDay, tod |-> 0]

\* C11: the marker is null until the first tick, after every tick it is the
\* day of the month the handler read at the start of that tick, and it changes
\* only in a tick that runs the render pass
C11_MarkerOwnedByTick ==
    /\ [](IF tickDay = NoDay THEN lastRenderedDay = null
          ELSE lastRenderedDay = getDate(TickDate))
    /\ [][lastRenderedDay' # lastRenderedDay
            => (renders' = 1 /\ lastRenderedDay' = getDate([day |-> tickDay', tod |-> 0]))]_vars

\* a tick whose render pass ran into the next day: the marker is the day the
\* handler read, not the day the clock shows after the pass
C11_Witness ==
    /\ tickDay # NoDay
    /\ renders = 1
    /\ clock.day = tickDay + 1
    /\ lastRenderedDay = getDate(TickDate)
    /\ lastRenderedDay # getDate(clock)

\* the cells marked today in the grids of the container, as (grid, day) pairs
MarkedToday ==
    {p \in UNION {{<<i, d>> : d \in DOMAIN container[i].cells} : i \in DOMAIN container} :
        "today" \in container[p[1]].cells[p[2]].classes}

\* C12: after a render pass of the live-clock copies at most one cell of all
\* the grids is marked today, and its date is the date the tick handler read,
\* also when midnight falls between the handler's read and the reads of the
\* createMonthCalendar calls
C12_OneTodayPerPass ==
    (renders = 1 /\ build # "demo") =>
        /\ Cardinality(MarkedToday) <= 1
        /\ \A p \in MarkedToday :
              DaysFromCivil(container[p[1]].year, container[p[1]].month, p[2]) = tickDay

====
